---- MODULE Spec2Model ----
(***************************************************************************)
(* Model of the tokio backend of the actor library (src/src/tokio.rs):     *)
(* TokioMailbox::make_mailbox, the ActorRef delivery closure built on an   *)
(* unbounded mpsc channel, TokioReceiver (receive / poll) and              *)
(* TokioSpawner::spawn.                                                    *)
(***************************************************************************)
EXTENDS Integers, Sequences, FiniteSets, TLC

(* ------------------------------ bounds --------------------------------- *)
\* Payloads 1..NMsg of the mailbox-level specification.
NMsg == 2
\* Largest number of tell calls recorded for the mailbox.
MaxTell == 3
\* Largest number of completed receive calls recorded for the mailbox.
MaxRecv == 5
\* Largest number of simultaneously live ActorRef clones of the mailbox.
MaxRefs == 2

\* Number of tasks that tell concurrently through clones of one ActorRef.
NSenders == 2

Msgs == 1..NMsg
Senders == 1..NSenders
\* The one mailbox of the mailbox-level specification.
FreeMailboxes == {"M"}
\* The actors the tests launch through TokioSpawner: the greeter (tests::actor),
\* the two capture actors of tests::smoke and the probe of tests::dropped.
Greeter == "G"
Captures == {"B1", "B2"}
Probe == "P"
Actors == {Greeter, Probe} \cup Captures
\* The mailbox of the responder the greeter creates for each request.
Responder == "R"
ActorMailboxes == Actors \cup {Responder}

VARIABLES
    chan,       \* chan[m]: the mpsc channel behind mailbox m
    told,       \* told[m]: the messages of the tell calls made on mailbox m, in call order
    got,        \* got[m]: the outputs of the completed receive calls on mailbox m
    last_tell,  \* what the most recent tell call met and returned
    at_close,   \* at_close[m]: what the drop of m's last ActorRef found (receive pending, queue length)
    pc,         \* pc[a]: where the body of actor a stands
    cur,        \* the request the greeter is serving
    join,       \* join[a]: output of the tokio JoinHandle of a's task
    outcome,    \* outcome[a]: what the awaited completion handle of a resolved to
    oneshot,    \* oneshot[a]: what a's body sent on its oneshot channel
    mainref     \* who still holds an ActorRef: the actors whose ActorRef the launching
                \* code holds, or the sender tasks that hold a clone

mvars == <<chan, told, got, last_tell, at_close>>
avars == <<pc, cur, join, outcome, oneshot, mainref>>
vars == <<chan, told, got, last_tell, at_close, pc, cur, join, outcome, oneshot, mainref>>

(* ------------------------------ values --------------------------------- *)
\* anyhow::Result
Ok(v) == [tag |-> "Ok", val |-> v]
Err(e) == [tag |-> "Err", val |-> e]
\* std::task::Poll
Ready(o) == [poll |-> "Ready", out |-> o]
Pending == [poll |-> "Pending"]
\* Option returned by poll_recv
Some(v) == [tag |-> "Some", val |-> v]
None == [tag |-> "None"]
\* anyhow!("channel closed")
ChannelClosed == "channel closed"

\* The error Context::receive reports once no ActorRef is left.
NoActorRef == "NoActorRef"
\* tokio's JoinError, and the JoinHandle of a task that has not ended.
JoinError == "JoinError"
Running == [tag |-> "Running"]
\* A completion handle nobody has seen resolve.
Unresolved == [tag |-> "Unresolved"]
\* Strings, as sequences of characters.
Fred == <<"F", "r", "e", "d">>
Barney == <<"B", "a", "r", "n", "e", "y">>
Names == {Fred, Barney}
\* Messages of the actors: a String, or a (String, ActorRef<String>) pair.
NoRef == "none"
Msg(text, ref) == [text |-> text, ref |-> ref]
NoRequest == Msg(<<>>, NoRef)

(* ------------------------- the mpsc channel ---------------------------- *)
\* A mailbox slot before make_mailbox has run for it.
NoChannel ==
    [made |-> FALSE, queue |-> <<>>, tx |-> 0, rx_alive |-> FALSE, rx_waker |-> "none"]

\* mpsc::unbounded_channel(): empty queue, one sender handle, receiver alive.
unbounded_channel ==
    [made |-> TRUE, queue |-> <<>>, tx |-> 1, rx_alive |-> TRUE, rx_waker |-> "none"]

\* Wake the task whose waker poll_recv registered.
wake(c) == IF c.rx_waker = "registered" THEN [c EXCEPT !.rx_waker = "woken"] ELSE c

\* send that puts the message at the front of the queue.
send_front(c, msg) ==
    IF c.rx_alive
    THEN [chan |-> wake([c EXCEPT !.queue = <<msg>> \o @]), res |-> "Ok"]
    ELSE [chan |-> c, res |-> "SendError"]

\* send as an unsynchronized append: a message still queued is overwritten.
send_overwrite(c, msg) ==
    IF c.rx_alive
    THEN [chan |-> wake([c EXCEPT !.queue =
                            IF @ = <<>> THEN <<msg>> ELSE [@ EXCEPT ![Len(@)] = msg]]),
          res |-> "Ok"]
    ELSE [chan |-> c, res |-> "SendError"]

\* tx.send(msg): appends unless the receiver is gone, then the message comes back.
send(c, msg) ==
    IF c.rx_alive
    THEN [chan |-> wake([c EXCEPT !.queue = Append(@, msg)]), res |-> "Ok"]
    ELSE [chan |-> c, res |-> "SendError"]

\* The ActorRef closure with the send result surfaced (unwrap) instead of discarded.
tell_closure_unwrap(c, msg) ==
    [chan |-> send(c, msg).chan,
     ret |-> IF send(c, msg).res = "Ok" THEN "unit" ELSE "panic"]

\* The ActorRef closure: move |msg| { let _ = tx.send(msg); }
tell_closure(c, msg) == [chan |-> send(c, msg).chan, ret |-> "unit"]

\* Dropping a holder of the closure where the last holder leaks tx.
tx_drop_leak(c) == IF c.tx = 1 THEN c ELSE [c EXCEPT !.tx = @ - 1]

\* Dropping the last holder also throws away what is still queued.
tx_drop_purge(c) ==
    IF c.tx = 1 THEN wake([c EXCEPT !.tx = 0, !.queue = <<>>]) ELSE [c EXCEPT !.tx = @ - 1]

\* Dropping one holder of the closure; the last one drops tx, which closes the
\* channel and wakes the receiver.
tx_drop(c) ==
    IF c.tx = 1 THEN wake([c EXCEPT !.tx = 0]) ELSE [c EXCEPT !.tx = @ - 1]

\* Another holder of the closure.
tx_clone(c) == [c EXCEPT !.tx = @ + 1]

\* Dropping the TokioReceiver: the channel closes and queued messages are
\* dropped; a waker that a pending receive registered stays in the channel.
rx_drop(c) == [c EXCEPT !.rx_alive = FALSE, !.queue = <<>>]

\* rx.poll_recv(cx): head of the queue, else None once every sender is gone,
\* else Pending with the waker registered.
poll_recv(c) ==
    IF c.queue # <<>>
    THEN [value |-> Some(Head(c.queue)),
          chan |-> [c EXCEPT !.queue = Tail(@), !.rx_waker = "none"]]
    ELSE IF c.tx = 0
         THEN [value |-> None, chan |-> [c EXCEPT !.rx_waker = "none"]]
         ELSE [value |-> Pending, chan |-> [c EXCEPT !.rx_waker = "registered"]]

\* poll with Ready(None) turned into Pending.
poll_never_closed(c) ==
    LET r == poll_recv(c) IN
    [out |-> IF r.value = Pending \/ r.value = None THEN Pending
             ELSE Ready(Ok(r.value.val)),
     chan |-> r.chan]

\* poll that reports closure as soon as no sender is left, queue or not.
poll_close_first(c) ==
    LET r == poll_recv(c) IN
    IF c.tx = 0
    THEN [out |-> Ready(Err(ChannelClosed)), chan |-> [c EXCEPT !.rx_waker = "none"]]
    ELSE [out |-> IF r.value = Pending THEN Pending ELSE Ready(Ok(r.value.val)),
          chan |-> r.chan]

\* poll with Pending turned into the closed error.
poll_pending_as_closed(c) ==
    LET r == poll_recv(c) IN
    [out |-> IF r.value = Pending \/ r.value = None THEN Ready(Err(ChannelClosed))
             ELSE Ready(Ok(r.value.val)),
     chan |-> [r.chan EXCEPT !.rx_waker = "none"]]

\* poll that reports closure only to a task the closing woke up.
poll_close_once(c) ==
    LET r == poll_recv(c) IN
    IF r.value = None /\ c.rx_waker # "woken"
    THEN [out |-> Pending, chan |-> [c EXCEPT !.rx_waker = "registered"]]
    ELSE [out |-> IF r.value = Pending THEN Pending
                  ELSE IF r.value = None THEN Ready(Err(ChannelClosed))
                  ELSE Ready(Ok(r.value.val)),
          chan |-> r.chan]

\* <TokioReceiver as Future>::poll
poll(c) ==
    LET r == poll_recv(c) IN
    [out |-> IF r.value = Pending THEN Pending
             ELSE IF r.value = None THEN Ready(Err(ChannelClosed))
             ELSE Ready(Ok(r.value.val)),
     chan |-> r.chan]

\* tell that never hands the message to the channel.
tell_dropped(ch, m, msg) == ch

\* tell through a closure that captured the tx of the greeter's channel,
\* whatever mailbox it was made for.
tell_shared(ch, m, msg) == [ch EXCEPT !["G"] = tell_closure(ch["G"], msg).chan]

\* TokioMailbox::make_mailbox for slot m: a fresh channel of its own.
make_mailbox(ch, m) == [ch EXCEPT ![m] = unbounded_channel]

\* ActorRef::tell on mailbox m: runs the closure that owns m's tx.
tell(ch, m, msg) == [ch EXCEPT ![m] = tell_closure(ch[m], msg).chan]

(* ------------------------------ helpers -------------------------------- *)
Last(s) == s[Len(s)]
IsOk(r) == r.tag = "Ok"
IsNoSender(r) == r.tag = "Err"
RECURSIVE OkMsgs(_)
\* The messages among a sequence of receive outputs.
OkMsgs(s) ==
    IF s = <<>> THEN <<>>
    ELSE IF IsOk(Head(s)) THEN <<Head(s).val>> \o OkMsgs(Tail(s))
    ELSE OkMsgs(Tail(s))
IsPrefix(s, t) == Len(s) <= Len(t) /\ s = SubSeq(t, 1, Len(s))
HasNoSender(s) == \E i \in 1..Len(s) : IsNoSender(s[i])
\* A receive call of the living receiver has returned Pending and not yet a value.
ReceivePending(c) == c.rx_alive /\ c.rx_waker # "none"
\* at_close after the drop of one ActorRef of mailbox m.
StillOpen == [closed |-> FALSE, pending |-> FALSE, queued |-> 0]
NoteClose(ac, ch, m) ==
    IF ch[m].tx = 1
    THEN [ac EXCEPT ![m] = [closed |-> TRUE,
                            pending |-> ch[m].rx_alive /\ ch[m].rx_waker = "registered",
                            queued |-> Len(ch[m].queue)]]
    ELSE ac
\* last_tell after a tell of msg on mailbox m.
NoteTell(ch, m, msg) ==
    [mb |-> m, open |-> ch[m].rx_alive, ret |-> tell_closure(ch[m], msg).ret]

(* --------------------------- initial state ----------------------------- *)
\* No actor launched, no completion handle, nothing held.
ActorInit ==
    /\ pc = [a \in Actors |-> "unlaunched"]
    /\ cur = NoRequest
    /\ join = [a \in Actors |-> Running]
    /\ outcome = [a \in Actors |-> Unresolved]
    /\ oneshot = [a \in Actors |-> <<>>]
    /\ mainref = {}

MailboxInit(mbs) ==
    /\ chan = [m \in mbs |-> NoChannel]
    /\ told = [m \in mbs |-> <<>>]
    /\ got = [m \in mbs |-> <<>>]
    /\ last_tell = [mb |-> "none", open |-> FALSE, ret |-> "none"]
    /\ at_close = [m \in mbs |-> StillOpen]

Init == MailboxInit(FreeMailboxes) /\ ActorInit

(* ---------------- actions of the mailbox-level specification ----------- *)
MakeMailbox(m) ==
    /\ ~chan[m].made
    /\ chan' = make_mailbox(chan, m)
    /\ UNCHANGED <<told, got, last_tell, at_close, avars>>

\* ActorRef::clone
CloneRef(m) ==
    /\ chan[m].tx > 0
    /\ chan[m].tx < MaxRefs
    /\ chan' = [chan EXCEPT ![m] = tx_clone(@)]
    /\ UNCHANGED <<told, got, last_tell, at_close, avars>>

\* drop(aref)
DropRef(m) ==
    /\ chan[m].tx > 0
    /\ chan' = [chan EXCEPT ![m] = tx_drop(@)]
    /\ at_close' = NoteClose(at_close, chan, m)
    /\ UNCHANGED <<told, got, last_tell, avars>>

\* aref.tell(msg) through any live clone
Tell(m, msg) ==
    /\ chan[m].tx > 0
    /\ Len(told[m]) < MaxTell
    /\ chan' = tell(chan, m, msg)
    /\ told' = [told EXCEPT ![m] = Append(@, msg)]
    /\ last_tell' = NoteTell(chan, m, msg)
    /\ UNCHANGED <<got, at_close, avars>>

\* One poll of the receive future of mailbox m and what it does with the output.
PollStep(m) ==
    LET p == poll(chan[m]) IN
    /\ chan' = [chan EXCEPT ![m] = p.chan]
    /\ got' = IF p.out = Pending THEN got ELSE [got EXCEPT ![m] = Append(@, p.out.out)]
    /\ UNCHANGED <<told, last_tell, at_close, avars>>

\* receive().await: the first poll of a new receive call.
Receive(m) ==
    /\ chan[m].rx_alive
    /\ chan[m].rx_waker = "none"
    /\ Len(got[m]) < MaxRecv
    /\ PollStep(m)

\* The runtime polls the task again after its waker fired.
Repoll(m) ==
    /\ chan[m].rx_alive
    /\ chan[m].rx_waker = "woken"
    /\ PollStep(m)

\* The TokioReceiver is dropped by its owner: between two receive calls, or
\* together with a receive that is still pending or was just woken (receive
\* only borrows the receiver, so the pending future is dropped with it).
DropReceiver(m) ==
    /\ chan[m].rx_alive
    /\ chan' = [chan EXCEPT ![m] = rx_drop(@)]
    /\ UNCHANGED <<told, got, last_tell, at_close, avars>>

Next ==
    \/ \E m \in FreeMailboxes : MakeMailbox(m)
    \/ \E m \in FreeMailboxes : CloneRef(m)
    \/ \E m \in FreeMailboxes : DropRef(m)
    \/ \E m \in FreeMailboxes, msg \in Msgs : Tell(m, msg)
    \/ \E m \in FreeMailboxes : Receive(m)
    \/ \E m \in FreeMailboxes : Repoll(m)
    \/ \E m \in FreeMailboxes : DropReceiver(m)

Spec == Init /\ [][Next]_vars

\* A woken task is polled again by the runtime.
FairSpec == Spec /\ \A m \in FreeMailboxes : WF_vars(Repoll(m))
(* ------------------------- launched actors ----------------------------- *)
\* Context::receive: the receiver's future, its failure reported as NoActorRef.
ctx_receive(c) ==
    LET p == poll(c) IN
    [out |-> IF p.out = Pending THEN Pending
             ELSE IF IsOk(p.out.out) THEN p.out
             ELSE Ready(Err(NoActorRef)),
     chan |-> p.chan]

\* format! that leaves out the closing "!".
format_hello_plain(m) == <<"H", "e", "l", "l", "o", " ">> \o m

\* format!("Hello {}!", m)
format_hello(m) == <<"H", "e", "l", "l", "o", " ">> \o m \o <<"!">>

\* The completion future of spawn with the two arms of its match exchanged.
spawn_outcome_swapped(j) == IF j.tag = "Ok" THEN Err(JoinError) ELSE Ok(j.val)

\* The completion future reporting every ended task as an execution failure.
spawn_outcome_failed(j) == Err(JoinError)

\* spawn reporting a JoinError as if the body had returned an error.
spawn_outcome_flatten(j) == IF j.tag = "Ok" THEN Ok(j.val) ELSE Ok(Err(j.val))

\* The completion future of TokioSpawner::spawn, from the JoinHandle output j:
\* match fut.await { Ok(result) => Ok(result), Err(err) => Err(err.into()) }
spawn_outcome(j) == IF j.tag = "Ok" THEN Ok(j.val) ELSE Err(j.val)

\* What the capture bodies of tests::smoke return: Ok("buh") and Ok(42).
RetVal(b) == IF b = "B1" THEN "buh" ELSE 42
\* Ok(()) of the probe and of the responder.
Unit == "unit"

\* A discarded message whose ActorRef is never released.
drop_msg_leak(ch, msg) == ch

\* Dropping a message that was not delivered drops the ActorRef it carries.
drop_msg(ch, msg) ==
    IF msg.ref = NoRef THEN ch ELSE [ch EXCEPT ![msg.ref] = tx_drop(@)]
RECURSIVE drop_msgs(_, _)
drop_msgs(ch, q) == IF q = <<>> THEN ch ELSE drop_msgs(drop_msg(ch, Head(q)), Tail(q))

\* Dropping the Context of mailbox m: its receiver and what was still queued.
drop_context(ch, m) == drop_msgs([ch EXCEPT ![m] = rx_drop(@)], ch[m].queue)

\* at_close after a step that took the channels from ch to ch2.
NoteCloseAll(ac, ch, ch2) ==
    [m \in DOMAIN ch |->
        IF ch[m].tx > 0 /\ ch2[m].tx = 0
        THEN [closed |-> TRUE,
              pending |-> ch[m].rx_alive /\ ch[m].rx_waker = "registered",
              queued |-> Len(ch[m].queue)]
        ELSE IF ch2[m].tx > 0 THEN StillOpen ELSE ac[m]]

\* A body future that is created but never handed to the runtime: it is not
\* polled until something has woken it.
Runnable_unspawned(a) == pc[a] = "recv" /\ chan[a].rx_waker = "woken"

\* A spawned task the runtime will poll: not yet polled, or woken in receive.
Runnable(a) ==
    \/ pc[a] = "ready"
    \/ pc[a] = "recv" /\ chan[a].rx_waker = "woken"

ActorSpecInit == MailboxInit(ActorMailboxes) /\ ActorInit

\* actor!(TokioMailbox, TokioSpawner, body): make_mailbox, Context, spawn.
Launch(a) ==
    /\ pc[a] = "unlaunched"
    /\ chan' = make_mailbox(chan, a)
    /\ pc' = [pc EXCEPT ![a] = "ready"]
    /\ mainref' = mainref \cup {a}
    /\ UNCHANGED <<told, got, last_tell, at_close, cur, join, outcome, oneshot>>

\* aref.tell((name, receiver)): the capture actor's ActorRef moves into the message.
Request(b, n) ==
    /\ Greeter \in mainref
    /\ b \in mainref
    /\ LET msg == Msg(n, b)
           ch1 == tell(chan, Greeter, msg)
           ch2 == IF send(chan[Greeter], msg).res = "Ok" THEN ch1 ELSE drop_msg(ch1, msg)
       IN /\ chan' = ch2
          /\ at_close' = NoteCloseAll(at_close, chan, ch2)
          /\ told' = [told EXCEPT ![Greeter] = Append(@, msg)]
          /\ last_tell' = NoteTell(chan, Greeter, msg)
    /\ mainref' = mainref \ {b}
    /\ UNCHANGED <<got, pc, cur, join, outcome, oneshot>>

\* drop(aref)
MainDrop(a) ==
    /\ a \in mainref
    /\ LET ch1 == [chan EXCEPT ![a] = tx_drop(@)]
       IN chan' = ch1 /\ at_close' = NoteCloseAll(at_close, chan, ch1)
    /\ mainref' = mainref \ {a}
    /\ UNCHANGED <<told, got, last_tell, pc, cur, join, outcome, oneshot>>

\* A completion future that does not wait for the task: it resolves as soon as
\* it is awaited, with an execution failure if the task has not ended.
Await_early(a) ==
    /\ pc[a] # "unlaunched"
    /\ outcome[a].tag = "Unresolved"
    /\ outcome' = [outcome EXCEPT ![a] =
                      IF join[a].tag = "Running" THEN Err(JoinError)
                      ELSE spawn_outcome(join[a])]
    /\ UNCHANGED <<mvars, pc, cur, join, oneshot, mainref>>

\* join_handle.await: the completion future resolves once the task has ended.
Await(a) ==
    /\ join[a].tag # "Running"
    /\ outcome[a].tag = "Unresolved"
    /\ outcome' = [outcome EXCEPT ![a] = spawn_outcome(join[a])]
    /\ UNCHANGED <<mvars, pc, cur, join, oneshot, mainref>>

\* tests::actor: let (name, sender) = ctx.receive().await?;
GreeterReceive ==
    /\ Runnable(Greeter)
    /\ LET r == ctx_receive(chan[Greeter])
           ch1 == [chan EXCEPT ![Greeter] = r.chan]
       IN IF r.out = Pending
          THEN /\ chan' = ch1
               /\ pc' = [pc EXCEPT ![Greeter] = "recv"]
               /\ UNCHANGED <<got, at_close, cur, join>>
          ELSE IF IsOk(r.out.out)
          THEN /\ chan' = ch1
               /\ got' = [got EXCEPT ![Greeter] = Append(@, r.out.out)]
               /\ cur' = r.out.out.val
               /\ pc' = [pc EXCEPT ![Greeter] = "serve"]
               /\ UNCHANGED <<at_close, join>>
          ELSE LET ch2 == drop_context(ch1, Greeter)
               IN /\ chan' = ch2
                  /\ at_close' = NoteCloseAll(at_close, chan, ch2)
                  /\ got' = [got EXCEPT ![Greeter] = Append(@, r.out.out)]
                  /\ join' = [join EXCEPT ![Greeter] = Ok(r.out.out)]
                  /\ pc' = [pc EXCEPT ![Greeter] = "done"]
                  /\ UNCHANGED cur
    /\ UNCHANGED <<told, last_tell, outcome, oneshot, mainref>>

\* tests::actor: the responder's mailbox is made and responder.tell(name) runs.
GreeterServe ==
    /\ pc[Greeter] = "serve"
    /\ LET msg == Msg(cur.text, NoRef)
           ch1 == make_mailbox(chan, Responder)
       IN /\ chan' = tell(ch1, Responder, msg)
          /\ told' = [told EXCEPT ![Responder] = <<msg>>]
          /\ got' = [got EXCEPT ![Responder] = <<>>]
          /\ last_tell' = NoteTell(ch1, Responder, msg)
          /\ at_close' = [at_close EXCEPT ![Responder] = StillOpen]
    /\ pc' = [pc EXCEPT ![Greeter] = "await"]
    /\ UNCHANGED <<cur, join, outcome, oneshot, mainref>>

\* handle.await runs the responder: let m = ctx.receive().await?;
\* sender.tell(format!("Hello {}!", m)); Ok(())
ResponderRun ==
    /\ pc[Greeter] = "await"
    /\ chan[Responder].rx_waker # "registered"
    /\ LET r == ctx_receive(chan[Responder])
           ch1 == [chan EXCEPT ![Responder] = r.chan]
       IN IF r.out = Pending
          THEN /\ chan' = ch1
               /\ UNCHANGED <<told, got, last_tell, pc>>
          ELSE IF IsOk(r.out.out)
          THEN LET reply == Msg(format_hello(r.out.out.val.text), NoRef)
               IN /\ chan' = tell(ch1, cur.ref, reply)
                  /\ told' = [told EXCEPT ![cur.ref] = Append(@, reply)]
                  /\ got' = [got EXCEPT ![Responder] = Append(@, r.out.out)]
                  /\ last_tell' = NoteTell(ch1, cur.ref, reply)
                  /\ pc' = [pc EXCEPT ![Greeter] = "finish"]
          ELSE /\ chan' = ch1
               /\ got' = [got EXCEPT ![Responder] = Append(@, r.out.out)]
               /\ pc' = [pc EXCEPT ![Greeter] = "finish"]
               /\ UNCHANGED <<told, last_tell>>
    /\ UNCHANGED <<at_close, cur, join, outcome, oneshot, mainref>>

\* The responder has ended: its Context and sender are dropped, handle.await
\* returns, the iteration ends and drops responder; the loop goes on.
ResponderFinish ==
    /\ pc[Greeter] = "finish"
    /\ LET ch1 == drop_context(chan, Responder)
           ch2 == [ch1 EXCEPT ![cur.ref] = tx_drop(@)]
           ch3 == [ch2 EXCEPT ![Responder] = tx_drop(@)]
       IN /\ chan' = ch3
          /\ at_close' = NoteCloseAll(at_close, chan, ch3)
    /\ cur' = NoRequest
    /\ pc' = [pc EXCEPT ![Greeter] = "ready"]
    /\ UNCHANGED <<told, got, last_tell, join, outcome, oneshot, mainref>>

\* tests::smoke: let msg = ctx.receive().await?; let _ = tx.send(msg); Ok(value)
CaptureReceive(b) ==
    /\ Runnable(b)
    /\ LET r == ctx_receive(chan[b])
           ch1 == [chan EXCEPT ![b] = r.chan]
           ch2 == drop_context(ch1, b)
       IN IF r.out = Pending
          THEN /\ chan' = ch1
               /\ pc' = [pc EXCEPT ![b] = "recv"]
               /\ UNCHANGED <<got, at_close, join, oneshot>>
          ELSE /\ chan' = ch2
               /\ at_close' = NoteCloseAll(at_close, chan, ch2)
               /\ got' = [got EXCEPT ![b] = Append(@, r.out.out)]
               /\ pc' = [pc EXCEPT ![b] = "done"]
               /\ IF IsOk(r.out.out)
                  THEN /\ oneshot' = [oneshot EXCEPT ![b] = <<r.out.out.val>>]
                       /\ join' = [join EXCEPT ![b] = Ok(Ok(RetVal(b)))]
                  ELSE /\ join' = [join EXCEPT ![b] = Ok(r.out.out)]
                       /\ UNCHANGED oneshot
    /\ UNCHANGED <<told, last_tell, cur, outcome, mainref>>

\* A probe body that ends with the result of its receive, as `?` would.
probe_result_propagate(r) == IF r.tag = "Ok" THEN Ok(Unit) ELSE r

\* What the probe body of tests::dropped returns after its receive yielded r:
\* Ok(()), whatever r was.
probe_result(r) == Ok(Unit)

\* tests::dropped: let result = ctx.receive().await; let _ = tx.send(result); Ok(())
ProbeReceive ==
    /\ Runnable(Probe)
    /\ LET r == ctx_receive(chan[Probe])
           ch1 == [chan EXCEPT ![Probe] = r.chan]
           ch2 == drop_context(ch1, Probe)
       IN IF r.out = Pending
          THEN /\ chan' = ch1
               /\ pc' = [pc EXCEPT ![Probe] = "recv"]
               /\ UNCHANGED <<got, at_close, join, oneshot>>
          ELSE /\ chan' = ch2
               /\ at_close' = NoteCloseAll(at_close, chan, ch2)
               /\ got' = [got EXCEPT ![Probe] = Append(@, r.out.out)]
               /\ pc' = [pc EXCEPT ![Probe] = "done"]
               /\ oneshot' = [oneshot EXCEPT ![Probe] = <<r.out.out>>]
               /\ join' = [join EXCEPT ![Probe] = Ok(probe_result(r.out.out))]
    /\ UNCHANGED <<told, last_tell, cur, outcome, mainref>>

ActorNext ==
    \/ \E a \in Actors : Launch(a)
    \/ \E b \in Captures, n \in Names : Request(b, n)
    \/ \E a \in Actors : MainDrop(a)
    \/ \E a \in Actors : Await(a)
    \/ GreeterReceive
    \/ GreeterServe
    \/ ResponderRun
    \/ ResponderFinish
    \/ \E b \in Captures : CaptureReceive(b)
    \/ ProbeReceive

ActorSpec == ActorSpecInit /\ [][ActorNext]_vars

\* tests::smoke alone: the greeter and the two capture actors.
SmokeActors == {Greeter} \cup Captures
SmokeNext ==
    \/ \E a \in SmokeActors : Launch(a)
    \/ \E b \in Captures, n \in Names : Request(b, n)
    \/ \E a \in SmokeActors : MainDrop(a)
    \/ \E a \in SmokeActors : Await(a)
    \/ GreeterReceive
    \/ GreeterServe
    \/ ResponderRun
    \/ ResponderFinish
    \/ \E b \in Captures : CaptureReceive(b)

SmokeSpec == ActorSpecInit /\ [][SmokeNext]_vars

\* The runtime polls every spawned or woken task, and a task it polls runs up
\* to its next suspension.
SmokeFairSpec ==
    /\ SmokeSpec
    /\ WF_vars(GreeterReceive)
    /\ WF_vars(GreeterServe)
    /\ WF_vars(ResponderRun)
    /\ WF_vars(ResponderFinish)
    /\ \A b \in Captures : WF_vars(CaptureReceive(b))

(* ------------------- claims of the mailbox-level specification --------- *)
\* C1: FIFO delivery. The messages receive has yielded are a prefix of the tell
\* calls in call order, and while the receiver lives the tell calls not yet
\* received are exactly the queue, in call order.
FifoDelivery ==
    \A m \in FreeMailboxes :
        /\ IsPrefix(OkMsgs(got[m]), told[m])
        /\ chan[m].rx_alive => told[m] = OkMsgs(got[m]) \o chan[m].queue

\* Two different messages told, then both received, in call order.
FifoWitness ==
    \E m \in FreeMailboxes :
        /\ Len(told[m]) >= 2
        /\ told[m][1] # told[m][2]
        /\ OkMsgs(got[m]) = told[m]

\* C2: no hang on close. A receive pending on an empty mailbox whose ActorRefs
\* are all dropped does not stay pending: it resolves with the NoSender
\* failure, unless its owner abandons it first by dropping the receiver.
NoHangOnClose ==
    \A m \in FreeMailboxes :
        (ReceivePending(chan[m]) /\ chan[m].queue = <<>> /\ chan[m].tx = 0)
            ~> \/ /\ chan[m].rx_alive
                  /\ ~ReceivePending(chan[m])
                  /\ got[m] # <<>>
                  /\ IsNoSender(Last(got[m]))
               \/ ~chan[m].rx_alive

\* The last ActorRef was dropped during a pending receive, which then resolved
\* with NoSender.
NoHangWitness ==
    \E m \in FreeMailboxes :
        /\ at_close[m].closed
        /\ at_close[m].pending
        /\ got[m] # <<>>
        /\ IsNoSender(Last(got[m]))

\* C3: drain before closure. A receive yields NoSender only with the queue empty
\* and after every message told has been yielded, in call order.
DrainBeforeClosure ==
    \A m \in FreeMailboxes :
        \A i \in 1..Len(got[m]) :
            IsNoSender(got[m][i]) =>
                /\ chan[m].tx = 0
                /\ chan[m].queue = <<>>
                /\ OkMsgs(SubSeq(got[m], 1, i - 1)) = told[m]

\* The last ActorRef was dropped with k >= 2 messages queued; k receives
\* yielded them and receive k + 1 yielded NoSender.
DrainWitness ==
    \E m \in FreeMailboxes :
        /\ at_close[m].closed
        /\ at_close[m].queued >= 2
        /\ Len(got[m]) > at_close[m].queued
        /\ IsNoSender(got[m][Len(told[m]) + 1])
        /\ \A i \in 1..Len(told[m]) : IsOk(got[m][i])

\* C4: no spurious closure. While an ActorRef exists, a receive yields the head
\* of the queue or, the queue empty, stays pending; dropping an ActorRef that is
\* not the last leaves the mailbox open and the receiver undisturbed.
NoSpuriousClosure ==
    [][\A m \in FreeMailboxes :
         /\ (chan[m].tx > 0 /\ (Receive(m) \/ Repoll(m))) =>
                IF chan[m].queue = <<>>
                THEN got'[m] = got[m] /\ chan'[m].rx_waker = "registered"
                ELSE got'[m] = Append(got[m], Ok(Head(chan[m].queue)))
         /\ (chan[m].tx > 1 /\ DropRef(m)) =>
                /\ chan'[m].tx > 0
                /\ chan'[m].rx_waker = chan[m].rx_waker
                /\ got'[m] = got[m]
      ]_vars

\* A receive pending on an empty queue while an ActorRef is left, no NoSender
\* ever yielded.
NoSpuriousWitness ==
    \E m \in FreeMailboxes :
        /\ chan[m].tx > 0
        /\ chan[m].rx_waker = "registered"
        /\ chan[m].queue = <<>>
        /\ got[m] # <<>>
        /\ ~HasNoSender(got[m])

\* C5: the terminal state is idempotent. Once a receive has yielded NoSender,
\* every later receive yields NoSender at once: none yields a message, none
\* stays pending.
TerminalIdempotent ==
    [][\A m \in FreeMailboxes :
         HasNoSender(got[m]) =>
            /\ ~ReceivePending(chan'[m])
            /\ got'[m] # got[m] => got'[m] = Append(got[m], Err(ChannelClosed))
            /\ Receive(m) => got'[m] # got[m]
      ]_vars

\* NoSender yielded twice in a row.
TerminalWitness ==
    \E m \in FreeMailboxes :
        /\ Len(got[m]) >= 2
        /\ IsNoSender(got[m][Len(got[m]) - 1])
        /\ IsNoSender(Last(got[m]))

\* C6: a tell on a closed mailbox is a silent no-op. It returns unit, enqueues
\* nothing and leaves the channel as it was, closed.
TellClosedNoop ==
    [][\A m \in FreeMailboxes, msg \in Msgs :
         (Tell(m, msg) /\ ~chan[m].rx_alive) =>
            /\ chan'[m] = chan[m]
            /\ ~chan'[m].rx_alive
            /\ chan'[m].queue = <<>>
            /\ last_tell'.ret = "unit"
      ]_vars

\* A tell that found the mailbox closed has returned.
TellClosedWitness ==
    \E m \in FreeMailboxes :
        /\ last_tell.mb = m
        /\ ~last_tell.open
        /\ last_tell.ret = "unit"
        /\ ~chan[m].rx_alive
        /\ chan[m].queue = <<>>

(* ------------------- claims of the launched actors --------------------- *)
\* The actors whose body hands the receive error on with `?`.
Propagating == {Greeter} \cup Captures
IsBodyFailure(o) == o.tag = "Ok" /\ o.val.tag = "Err" /\ o.val.val = NoActorRef
ClosedWhileBlocked(a) == at_close[a].closed /\ at_close[a].pending
\* "Hello Fred!" and "Hello Barney!"
HelloFred == <<"H", "e", "l", "l", "o", " ", "F", "r", "e", "d", "!">>
HelloBarney == <<"H", "e", "l", "l", "o", " ", "B", "a", "r", "n", "e", "y", "!">>
Greeting(n) == IF n = Fred THEN HelloFred ELSE HelloBarney
Requested(n, b) == \E i \in 1..Len(told[Greeter]) : told[Greeter][i] = Msg(n, b)

\* C7: closure propagates as a body failure. When the only ActorRef of an actor
\* that propagates the receive error is dropped while its body is blocked in
\* receive, the task ends with the body failure NoActorRef and the completion
\* handle resolves to that body failure, never to an execution failure.
BodyFailureOnClose ==
    /\ [](\A a \in Propagating :
            ClosedWhileBlocked(a) =>
                /\ join[a].tag # "Running" => IsBodyFailure(join[a])
                /\ outcome[a].tag # "Unresolved" => IsBodyFailure(outcome[a]))
    /\ \A a \in Propagating :
            ClosedWhileBlocked(a) ~> (join[a].tag # "Running")

\* The greeter's only ActorRef was dropped while it was blocked in receive, and
\* its awaited handle has resolved to the body failure.
BodyFailureWitness ==
    /\ ClosedWhileBlocked(Greeter)
    /\ IsBodyFailure(outcome[Greeter])

\* C8: the completion handle returns the body's own value. A capture actor that
\* received its one message ends with Ok(value), and its handle resolves to
\* exactly that body success: no body failure, no execution failure.
CompletionReturnsValue ==
    \A b \in Captures :
        (got[b] # <<>> /\ IsOk(got[b][1]) /\ outcome[b].tag # "Unresolved") =>
            /\ outcome[b].tag = "Ok"
            /\ outcome[b].val.tag = "Ok"
            /\ outcome[b].val.val = RetVal(b)

\* The second capture actor of tests::smoke received a message and its handle
\* resolved to 42.
CompletionWitness ==
    /\ got["B2"] # <<>>
    /\ IsOk(got["B2"][1])
    /\ outcome["B2"].tag = "Ok"
    /\ outcome["B2"].val.tag = "Ok"
    /\ outcome["B2"].val.val = 42

\* C9: launch and reply. Sending (name, B) to the greeter leads to B receiving
\* "Hello name!"; B is told and receives that one message and nothing else.
LaunchAndReply ==
    /\ [](\A b \in Captures :
            /\ Len(told[b]) <= 1
            /\ IsPrefix(OkMsgs(got[b]), told[b])
            /\ \A i \in 1..Len(told[b]) :
                  \E n \in Names : Requested(n, b) /\ told[b][i] = Msg(Greeting(n), NoRef))
    /\ \A b \in Captures, n \in Names :
            Requested(n, b) ~> (got[b] = <<Ok(Msg(Greeting(n), NoRef))>>)

\* ("Fred", B1) was sent and B1 received "Hello Fred!" and passed it on.
LaunchAndReplyWitness ==
    /\ Requested(Fred, "B1")
    /\ got["B1"] = <<Ok(Msg(HelloFred, NoRef))>>
    /\ oneshot["B1"] = <<Msg(HelloFred, NoRef)>>

\* C10: mailbox isolation. What a mailbox holds and has yielded is exactly what
\* was told on its own ActorRef, for all mailboxes at once: a tell on one
\* mailbox puts nothing into another, and a new mailbox starts empty.
MailboxIsolation ==
    \A m \in ActorMailboxes :
        IF chan[m].rx_alive
        THEN told[m] = OkMsgs(got[m]) \o chan[m].queue
        ELSE IsPrefix(OkMsgs(got[m]), told[m])

\* Both capture actors and the greeter have received their own messages.
IsolationWitness ==
    /\ Len(OkMsgs(got[Greeter])) = 2
    /\ got["B1"] = <<Ok(Msg(HelloFred, NoRef))>>
    /\ got["B2"] = <<Ok(Msg(HelloBarney, NoRef))>>

(* ------------------- closure of a mailbox ------------------------------ *)
\* A channel no tell can reach a receive through any more: every sender is
\* gone, or the receiver is.
ClosedMailbox(c) == c.made /\ (c.tx = 0 \/ ~c.rx_alive)

\* C11 as stated: the drop of the last ActorRef is the only way a mailbox
\* closes, so a mailbox with an ActorRef left is open: its receiver lives and
\* a tell on it is enqueued.
ClosedOnlyByLastDrop ==
    \A m \in FreeMailboxes : (chan[m].made /\ chan[m].tx > 0) => ~ClosedMailbox(chan[m])

\* C11, amended: a mailbox is open from its creation until its last ActorRef
\* is dropped or its receiver is dropped; then it is closed, and it is closed
\* in every later state.
ClosureMonotonic ==
    [][\A m \in FreeMailboxes :
         /\ MakeMailbox(m) => ~ClosedMailbox(chan'[m])
         /\ ClosedMailbox(chan[m]) => ClosedMailbox(chan'[m])
         /\ (chan[m].made /\ ~ClosedMailbox(chan[m]) /\ ClosedMailbox(chan'[m]))
                => (DropRef(m) /\ chan[m].tx = 1) \/ DropReceiver(m)
         /\ (DropRef(m) /\ chan[m].tx = 1) => ClosedMailbox(chan'[m])
      ]_vars

\* The last ActorRef was dropped with the receiver alive, and a later receive
\* found the mailbox closed.
ClosureWitness ==
    \E m \in FreeMailboxes :
        /\ at_close[m].closed
        /\ chan[m].rx_alive
        /\ ClosedMailbox(chan[m])
        /\ HasNoSender(got[m])

(* ------------------- concurrent senders -------------------------------- *)
\* The sequence numbers of the messages of sender s in q, in the order of q.
RECURSIVE SeqsFrom(_, _)
SeqsFrom(q, s) ==
    IF q = <<>> THEN <<>>
    ELSE IF Head(q).from = s THEN <<Head(q).seq>> \o SeqsFrom(Tail(q), s)
    ELSE SeqsFrom(Tail(q), s)
\* How many tell calls sender s has made.
Issued(s) == Len(SeqsFrom(told["M"], s))

\* One mailbox, its ActorRef cloned to every sender task.
SendersInit ==
    /\ chan = [m \in FreeMailboxes |-> [unbounded_channel EXCEPT !.tx = NSenders]]
    /\ told = [m \in FreeMailboxes |-> <<>>]
    /\ got = [m \in FreeMailboxes |-> <<>>]
    /\ last_tell = [mb |-> "none", open |-> FALSE, ret |-> "none"]
    /\ at_close = [m \in FreeMailboxes |-> StillOpen]
    /\ pc = [a \in Actors |-> "unlaunched"]
    /\ cur = NoRequest
    /\ join = [a \in Actors |-> Running]
    /\ outcome = [a \in Actors |-> Unresolved]
    /\ oneshot = [a \in Actors |-> <<>>]
    /\ mainref = Senders

\* Sender task s tells its next message through its own clone.
SenderTell(s) ==
    /\ s \in mainref
    /\ Len(told["M"]) < MaxTell
    /\ LET msg == [from |-> s, seq |-> Issued(s) + 1]
       IN /\ chan' = tell(chan, "M", msg)
          /\ told' = [told EXCEPT !["M"] = Append(@, msg)]
          /\ last_tell' = NoteTell(chan, "M", msg)
    /\ UNCHANGED <<got, at_close, pc, cur, join, outcome, oneshot, mainref>>

\* Sender task s drops its clone.
SenderDrop(s) ==
    /\ s \in mainref
    /\ chan' = [chan EXCEPT !["M"] = tx_drop(@)]
    /\ at_close' = NoteClose(at_close, chan, "M")
    /\ mainref' = mainref \ {s}
    /\ UNCHANGED <<told, got, last_tell, pc, cur, join, outcome, oneshot>>

SendersNext ==
    \/ \E s \in Senders : SenderTell(s)
    \/ \E s \in Senders : SenderDrop(s)
    \/ Receive("M")
    \/ Repoll("M")

SendersSpec == SendersInit /\ [][SendersNext]_vars

\* C12: concurrent tells are atomic and lossless. Of every sender, the messages
\* received so far followed by those still queued are exactly the messages it
\* has told, each once and whole, in the order it told them.
ConcurrentTellsLossless ==
    \A s \in Senders :
        /\ SeqsFrom(OkMsgs(got["M"]) \o chan["M"].queue, s) = [i \in 1..Issued(s) |-> i]
        /\ IsPrefix(SeqsFrom(OkMsgs(got["M"]), s), [i \in 1..Issued(s) |-> i])

\* Two senders interleaved their tells (1, 2, 1) and the receiver has received
\* every message.
ConcurrentTellsWitness ==
    /\ Len(told["M"]) >= 3
    /\ told["M"][1].from = 1
    /\ told["M"][2].from = 2
    /\ told["M"][3].from = 1
    /\ Len(OkMsgs(got["M"])) = Len(told["M"])

(* ------------------- tasks that do not run to completion --------------- *)
\* The runtime ends the task of a before its body has returned (cancellation
\* at a suspension point, or before the first poll): the body future is dropped
\* with its Context, and the JoinHandle yields Err(JoinError).
Abort(a) ==
    /\ pc[a] \in {"ready", "recv"}
    /\ LET ch1 == drop_context(chan, a)
       IN chan' = ch1 /\ at_close' = NoteCloseAll(at_close, chan, ch1)
    /\ join' = [join EXCEPT ![a] = Err(JoinError)]
    /\ pc' = [pc EXCEPT ![a] = "aborted"]
    /\ UNCHANGED <<told, got, last_tell, cur, outcome, oneshot, mainref>>

AbortNext ==
    \/ SmokeNext
    \/ \E a \in SmokeActors : Abort(a)

AbortSpec == ActorSpecInit /\ [][AbortNext]_vars

AbortFairSpec ==
    /\ AbortSpec
    /\ WF_vars(GreeterReceive)
    /\ WF_vars(GreeterServe)
    /\ WF_vars(ResponderRun)
    /\ WF_vars(ResponderFinish)
    /\ \A b \in Captures : WF_vars(CaptureReceive(b))

IsExecutionFailure(o) == o.tag = "Err" /\ o.val = JoinError

\* C13: execution failure is a distinct outcome. A resolved completion handle
\* is the execution failure exactly when the task was ended without its body
\* returning; when the body returned, it is the body's own result (a value, or
\* the NoActorRef failure) wrapped in a non-error outer outcome.
ExecutionFailureDistinct ==
    \A a \in SmokeActors :
        outcome[a].tag # "Unresolved" =>
            /\ pc[a] \in {"done", "aborted"}
            /\ pc[a] = "aborted" <=> IsExecutionFailure(outcome[a])
            /\ pc[a] = "done" =>
                  /\ outcome[a].tag = "Ok"
                  /\ got[a] # <<>>
                  /\ IF IsNoSender(Last(got[a]))
                     THEN IsBodyFailure(outcome[a])
                     ELSE /\ outcome[a].val.tag = "Ok"
                          /\ a \in Captures
                          /\ outcome[a].val.val = RetVal(a)

\* One task was aborted and its handle resolved with the execution failure,
\* while another body returned the NoActorRef failure and a third a value.
ExecutionFailureWitness ==
    \E a, b, c \in SmokeActors :
        /\ pc[a] = "aborted" /\ IsExecutionFailure(outcome[a])
        /\ pc[b] = "done" /\ IsBodyFailure(outcome[b])
        /\ pc[c] = "done" /\ outcome[c].tag = "Ok" /\ outcome[c].val.tag = "Ok"

\* C14: a receive failure is local to the body. Once the probe body, which
\* handles the result of receive itself, has ended after receive yielded
\* NoSender, the value it saw is the NoSender error and its completion handle
\* resolves with the body's success value: neither a body failure nor an
\* execution failure.
ReceiveFailureLocal ==
    (pc[Probe] = "done" /\ IsNoSender(Last(got[Probe]))) =>
        /\ Len(oneshot[Probe]) = 1
        /\ oneshot[Probe][1].tag = "Err"
        /\ oneshot[Probe][1].val = NoActorRef
        /\ join[Probe].tag = "Ok"
        /\ outcome[Probe].tag # "Unresolved" =>
              /\ ~IsBodyFailure(outcome[Probe])
              /\ ~IsExecutionFailure(outcome[Probe])
              /\ outcome[Probe].tag = "Ok"
              /\ outcome[Probe].val.tag = "Ok"
              /\ outcome[Probe].val.val = Unit

\* tests::dropped: the ActorRef was dropped while the probe was blocked in
\* receive; the probe saw NoSender and its handle resolved with Ok(Ok(())).
ReceiveFailureLocalWitness ==
    /\ ClosedWhileBlocked(Probe)
    /\ pc[Probe] = "done"
    /\ IsNoSender(Last(got[Probe]))
    /\ oneshot[Probe] # <<>>
    /\ outcome[Probe].tag = "Ok"
    /\ outcome[Probe].val.tag = "Ok"

\* C15: spawned bodies run without being driven. Whether or not any completion
\* handle is ever awaited, a launched body is polled, and the k-th message told
\* to an actor is eventually received by it.
SpawnedBodiesRun ==
    /\ \A a \in SmokeActors : (pc[a] = "ready") ~> (pc[a] # "ready")
    /\ \A a \in SmokeActors, k \in 1..Cardinality(Captures) :
            (Len(told[a]) >= k) ~> (Len(OkMsgs(got[a])) >= k)

\* Both requests were received by the greeter and both replies by the capture
\* actors while no completion handle had been awaited.
SpawnedBodiesRunWitness ==
    /\ \A a \in SmokeActors : outcome[a].tag = "Unresolved"
    /\ Len(told[Greeter]) = 2
    /\ Len(OkMsgs(got[Greeter])) = 2
    /\ \A b \in Captures : Len(told[b]) = 1 /\ Len(OkMsgs(got[b])) = 1

(* ------------------- tells after the receiver is gone ------------------ *)
\* A tell to the greeter that finds the greeter's receiver gone.
DeadRequest(b, n) == Request(b, n) /\ ~chan[Greeter].rx_alive
\* The responder's reply that finds the receiver of its target gone.
DeadReply ==
    /\ ResponderRun
    /\ pc'[Greeter] = "finish"
    /\ IsOk(Last(got'[Responder]))
    /\ ~chan[cur.ref].rx_alive
\* What an actor can observe of a mailbox is the same before and after the step.
SameMailbox(m) ==
    /\ chan'[m].queue = chan[m].queue
    /\ chan'[m].rx_alive = chan[m].rx_alive
    /\ chan'[m].rx_waker = chan[m].rx_waker
    /\ ClosedMailbox(chan'[m]) = ClosedMailbox(chan[m])
\* No task, completion handle or oneshot changes in the step.
SameActors ==
    /\ \A a \in Actors : got'[a] = got[a]
    /\ join' = join /\ outcome' = outcome /\ oneshot' = oneshot

\* C16 as stated: a tell on a mailbox whose receiver is gone returns normally,
\* discards the message, and changes no other mailbox and no actor.
DeadTellChangesNothing ==
    [][\A b \in Captures, n \in Names :
         DeadRequest(b, n) =>
            /\ last_tell'.ret = "unit"
            /\ chan'[Greeter] = chan[Greeter]
            /\ pc' = pc /\ SameActors
            /\ \A m \in ActorMailboxes \ {Greeter} : SameMailbox(m)
      ]_vars

\* C16, amended: a tell on a mailbox whose receiver is gone returns normally
\* and leaves that mailbox as it was, receiver gone for ever; the message is
\* dropped with the ActorRef it carries, so the mailbox of that ActorRef loses
\* a sender (and closes, waking its receiver, if that was the last one); no
\* other mailbox, task, completion handle or oneshot changes.
DeadTellDropsMessage ==
    [][/\ \A a \in Actors : (chan[a].made /\ ~chan[a].rx_alive) => ~chan'[a].rx_alive
       /\ \A b \in Captures, n \in Names :
            DeadRequest(b, n) =>
               /\ last_tell'.ret = "unit"
               /\ chan'[Greeter] = chan[Greeter]
               /\ pc' = pc /\ SameActors
               /\ \A m \in ActorMailboxes \ {Greeter, b} : chan'[m] = chan[m]
               /\ chan'[b].tx = chan[b].tx - 1
               /\ chan'[b].queue = chan[b].queue
               /\ chan'[b].rx_alive = chan[b].rx_alive
               /\ chan'[b].rx_waker =
                     IF chan'[b].tx = 0 /\ chan[b].rx_waker = "registered"
                     THEN "woken" ELSE chan[b].rx_waker
       /\ DeadReply =>
               /\ last_tell'.ret = "unit"
               /\ SameActors
               /\ \A m \in ActorMailboxes \ {Responder} : chan'[m] = chan[m]
      ]_vars

\* The greeter was aborted while its ActorRef was still held; a request told
\* to it afterwards returned, nothing was queued, and the capture actor whose
\* ActorRef the request carried saw NoSender.
DeadTellWitness ==
    /\ pc[Greeter] = "aborted"
    /\ last_tell.mb = Greeter
    /\ ~last_tell.open
    /\ last_tell.ret = "unit"
    /\ chan[Greeter].queue = <<>>
    /\ \E b \in Captures :
          /\ \E n \in Names : Requested(n, b)
          /\ told[b] = <<>>
          /\ got[b] # <<>>
          /\ IsNoSender(Last(got[b]))

(* ------------------- the launch window --------------------------------- *)
\* Actor a is launched and its body has not been polled yet.
LaunchWindow(a) == pc[a] = "ready" /\ got[a] = <<>>

\* C17: no message is lost in the launch window. While a launched body has not
\* been polled, everything told on its ActorRef is queued, whether or not the
\* ActorRef has been dropped since; and if anything was told, the body's first
\* poll of receive yields the first message told.
NoLossInLaunchWindow ==
    /\ [](\A a \in SmokeActors :
            LaunchWindow(a) => chan[a].rx_alive /\ chan[a].queue = told[a])
    /\ [][\A a \in SmokeActors :
            (LaunchWindow(a) /\ told[a] # <<>> /\ pc'[a] # pc[a]) =>
                got'[a] = <<Ok(told[a][1])>>
         ]_vars

\* The greeter was told a request and its only ActorRef was dropped, all before
\* its body was first polled: the request is queued on the closed mailbox.
LaunchWindowWitness ==
    /\ LaunchWindow(Greeter)
    /\ chan[Greeter].tx = 0
    /\ Len(told[Greeter]) = 1
    /\ chan[Greeter].queue = told[Greeter]

(* ------------------- the greeter's loop -------------------------------- *)
\* The greeter is between receiving a request and the end of its responder.
Busy == pc[Greeter] \in {"serve", "await", "finish"}
\* The reply to request r has been told to the ActorRef the request carried.
Replied(r) == told[r.ref] = <<Msg(Greeting(r.text), NoRef)>>

\* C18: the greeter serves requests one at a time and never deadlocks. While
\* it waits in receive no responder is alive and every request it has received
\* has been replied to; a request is received only after all earlier ones were
\* replied to, so replies are told in the order of the requests; serving a
\* request always ends, also when the reply target has terminated; and every
\* request told to a running greeter is received.
GreeterServesInOrder ==
    /\ [](LET recd == OkMsgs(got[Greeter]) IN
            /\ IsPrefix(recd, told[Greeter])
            /\ \A i \in 1..Len(recd) : (i < Len(recd) \/ ~Busy) => Replied(recd[i])
            /\ ~Busy => ~chan[Responder].rx_alive /\ cur = NoRequest
            /\ \A i, j \in 1..Len(told[Greeter]) :
                  (i < j /\ told[told[Greeter][j].ref] # <<>>) => Replied(told[Greeter][i]))
    /\ Busy ~> ~Busy
    /\ \A k \in 1..Cardinality(Captures) :
          (Len(told[Greeter]) >= k)
              ~> (Len(OkMsgs(got[Greeter])) >= k \/ pc[Greeter] = "aborted")

\* The first request's reply target was aborted without ever receiving; the
\* greeter still told both replies in order, the second capture actor received
\* "Hello n2!", and the greeter is back in receive.
GreeterServesWitness ==
    \E b1, b2 \in Captures :
        /\ b1 # b2
        /\ Len(told[Greeter]) = 2
        /\ told[Greeter][1].ref = b1
        /\ told[Greeter][2].ref = b2
        /\ pc[b1] = "aborted" /\ got[b1] = <<>> /\ at_close[b1].queued = 0
        /\ Replied(told[Greeter][1])
        /\ got[b2] = <<Ok(Msg(Greeting(told[Greeter][2].text), NoRef))>>
        /\ pc[Greeter] = "recv"

(* ------------------- the completion handle ----------------------------- *)
\* The body of a has returned or its task was ended.
BodyEnded(a) == pc[a] \in {"done", "aborted"} /\ join[a].tag # "Running"

\* C19: the completion handle resolves only after the body has ended, and at
\* most once. A resolved handle belongs to an ended body and carries the
\* result its task ended with; the task's result and the resolved outcome
\* never change afterwards, and an ended body never runs again.
ResolvesAfterEndOnce ==
    /\ [](\A a \in Actors :
            outcome[a].tag # "Unresolved" =>
                /\ BodyEnded(a)
                /\ outcome[a].tag = join[a].tag
                /\ outcome[a].tag = "Ok" =>
                      /\ outcome[a].val.tag = join[a].val.tag
                      /\ outcome[a].val.val = join[a].val.val)
    /\ [][\A a \in Actors :
            /\ outcome[a].tag # "Unresolved" => outcome'[a] = outcome[a]
            /\ join[a].tag # "Running" =>
                  /\ join'[a] = join[a]
                  /\ pc'[a] = pc[a]
                  /\ got'[a] = got[a]
            /\ (outcome[a].tag = "Unresolved" /\ outcome'[a].tag # "Unresolved") =>
                  BodyEnded(a)
         ]_vars

\* All four completion handles of tests::smoke and tests::dropped have
\* resolved, each after its body ended; the probe had been blocked in receive.
ResolvesAfterEndWitness ==
    /\ \A a \in Actors : outcome[a].tag # "Unresolved" /\ pc[a] = "done"
    /\ ClosedWhileBlocked(Probe)
====
